---- MODULE Spec2Model ----
(***************************************************************************)
(* The build-artifact cache of src/src/Components/ServeMemoryStore.ts:     *)
(* the in-process store (_htmlCache), the Asset Table (_assets), the       *)
(* persistent store (.ebw-cache/<hash>.json), the watcher registry, the    *)
(* rebuild listeners, and the asynchronous steps of buildAndCache; and the *)
(* authentication middleware that src/src/Server/Server.ts puts before a   *)
(* controller route.                                                       *)
(*                                                                         *)
(* Strings that the code only concatenates and compares (entry paths,      *)
(* cache keys, media types) are TLA+ strings.  Strings that the code       *)
(* splits, normalises or searches (web paths, file names) are sequences    *)
(* of one-character strings.  Optional values are <<>> or <<v>>.           *)
(***************************************************************************)
EXTENDS Integers, Sequences, FiniteSets, Bags, TLC

VARIABLES
  env,         \* the scenario: what the clients ask for and what is recorded
  phase,       \* "constructing" until the server's init() runs, then "serving"
  devMode,     \* _devMode
  htmlCache,   \* _htmlCache : cache key -> html
  assets,      \* _assets    : web path -> [type, content]
  disk,        \* files of _cacheDir : cache file -> persisted record
  watchers,    \* _watchers  : cache key -> closure [htmlPath, options]
  listeners,   \* _listeners : sequence of listeners
  calls,       \* the buildAndCache invocations in flight (a bag)
  srcVer,      \* content version of each entry's sources on disk
  pending,     \* fs.watch events not yet delivered, per watcher
  out,         \* what the step just taken returned, notified and saw
  seen,        \* history: one earlier successful return, arguments and html
  owed,        \* history: keys dropped and not yet asked for or built again
  keyQ,        \* the pair of getCacheKey applications under comparison
  lookup,      \* the most recent getAsset call and its result
  auth         \* a controller route, and the latest request to it with its outcome

vars == <<env, phase, devMode, htmlCache, assets, disk, watchers, listeners, calls,
          srcVer, pending, out, seen, owed, keyQ, lookup,
                 auth>>

----------------------------------------------------------------------------
(* Bounds *)

MaxCalls == 2       \* buildAndCache invocations in flight together
MaxVer == 1         \* edits of one entry's sources
MaxListeners == 2   \* registered rebuild listeners
MaxPending == 1     \* undelivered fs.watch events per watcher

----------------------------------------------------------------------------
(* Maps (JavaScript Map / object) as functions with a growing domain *)

\* an entry already present is kept
Put_keepFirst(f, k, v) ==
  [x \in (DOMAIN f) \cup {k} |-> IF x \in DOMAIN f THEN f[x] ELSE v]

Put(f, k, v) == [x \in (DOMAIN f) \cup {k} |-> IF x = k THEN v ELSE f[x]]

Del(f, k) == [x \in (DOMAIN f) \ {k} |-> f[x]]

EmptyMap == [x \in {} |-> 0]

Has(f, k) == k \in DOMAIN f

----------------------------------------------------------------------------
(* Character-sequence helpers: String.prototype.includes / endsWith / split *)

IsPrefixAt(s, sub, i) ==
  /\ i + Len(sub) - 1 <= Len(s)
  /\ \A j \in 1..Len(sub) : s[i + j - 1] = sub[j]

Includes(s, sub) == \E i \in 1..(Len(s) + 1) : IsPrefixAt(s, sub, i)

EndsWith(s, sub) ==
  /\ Len(sub) <= Len(s)
  /\ IsPrefixAt(s, sub, Len(s) - Len(sub) + 1)

RECURSIVE SplitOn(_, _)
\* s.split(sep) for a set of one-character separators: the list of segments
SplitOn(s, seps) ==
  IF \A i \in 1..Len(s) : s[i] \notin seps
  THEN <<s>>
  ELSE LET i == CHOOSE k \in 1..Len(s) :
                  s[k] \in seps /\ \A j \in 1..(k - 1) : s[j] \notin seps
       IN <<SubSeq(s, 1, i - 1)>> \o SplitOn(SubSeq(s, i + 1, Len(s)), seps)

RECURSIVE JoinWith(_, _)
JoinWith(segs, sep) ==
  IF Len(segs) = 0 THEN <<>>
  ELSE IF Len(segs) = 1 THEN segs[1]
  ELSE segs[1] \o <<sep>> \o JoinWith(Tail(segs), sep)

Last(s) == s[Len(s)]

DotDot == <<".", ".">>

----------------------------------------------------------------------------
(* path.posix.normalize, as getAsset applies it *)

RECURSIVE normalizeString(_, _, _)
\* res: segments kept so far; segs: segments still to read
normalizeString(res, segs, allowAboveRoot) ==
  IF Len(segs) = 0 THEN res
  ELSE LET seg == Head(segs)
           rest == Tail(segs)
       IN IF seg = <<>> \/ seg = <<".">>
          THEN normalizeString(res, rest, allowAboveRoot)
          ELSE IF seg = DotDot
          THEN IF Len(res) > 0 /\ Last(res) # DotDot
               THEN normalizeString(SubSeq(res, 1, Len(res) - 1), rest,
                                    allowAboveRoot)
               ELSE IF allowAboveRoot
               THEN normalizeString(Append(res, seg), rest, allowAboveRoot)
               ELSE normalizeString(res, rest, allowAboveRoot)
          ELSE normalizeString(Append(res, seg), rest, allowAboveRoot)

normalize(p) ==
  IF Len(p) = 0 THEN <<".">>
  ELSE LET isAbsolute == p[1] = "/"
           trailingSeparator == Last(p) = "/"
           body == JoinWith(normalizeString(<<>>, SplitOn(p, {"/"}),
                                            ~isAbsolute), "/")
       IN IF Len(body) = 0
          THEN IF isAbsolute THEN <<"/">>
               ELSE IF trailingSeparator THEN <<".", "/">> ELSE <<".">>
          ELSE LET b2 == IF trailingSeparator THEN Append(body, "/") ELSE body
               IN IF isAbsolute THEN <<"/">> \o b2 ELSE b2

\* getAsset: <<>> is undefined, <<asset>> is the entry found
getAsset(tbl, rawPath) ==
  LET normalizedPath == normalize(rawPath)
  IN IF Includes(normalizedPath, DotDot) THEN <<>>
     ELSE IF Has(tbl, normalizedPath) THEN <<tbl[normalizedPath]>>
     ELSE <<>>

----------------------------------------------------------------------------
(* Base64, as Buffer.from(bytes).toString("base64") and                    *)
(* Buffer.from(text, "base64") compute it.  A base64 text is a sequence    *)
(* of sextets 0..63; Pad stands for the character "=".                     *)

Pad == 64

RECURSIVE toBase64_lossy(_)
\* the low bits of a trailing single byte are dropped
toBase64_lossy(b) ==
  IF Len(b) = 0 THEN <<>>
  ELSE IF Len(b) = 1
  THEN <<b[1] \div 4, 0, Pad, Pad>>
  ELSE IF Len(b) = 2
  THEN <<b[1] \div 4, (b[1] % 4) * 16 + (b[2] \div 16), (b[2] % 16) * 4, Pad>>
  ELSE <<b[1] \div 4, (b[1] % 4) * 16 + (b[2] \div 16),
         (b[2] % 16) * 4 + (b[3] \div 64), b[3] % 64>>
       \o toBase64_lossy(SubSeq(b, 4, Len(b)))

RECURSIVE toBase64(_)
toBase64(b) ==
  IF Len(b) = 0 THEN <<>>
  ELSE IF Len(b) = 1
  THEN <<b[1] \div 4, (b[1] % 4) * 16, Pad, Pad>>
  ELSE IF Len(b) = 2
  THEN <<b[1] \div 4, (b[1] % 4) * 16 + (b[2] \div 16), (b[2] % 16) * 4, Pad>>
  ELSE <<b[1] \div 4, (b[1] % 4) * 16 + (b[2] \div 16),
         (b[2] % 16) * 4 + (b[3] \div 64), b[3] % 64>>
       \o toBase64(SubSeq(b, 4, Len(b)))

RECURSIVE fromSextets(_)
fromSextets(s) ==
  IF Len(s) < 2 THEN <<>>
  ELSE IF Len(s) = 2
  THEN <<s[1] * 4 + (s[2] \div 16)>>
  ELSE IF Len(s) = 3
  THEN <<s[1] * 4 + (s[2] \div 16), (s[2] % 16) * 16 + (s[3] \div 4)>>
  ELSE <<s[1] * 4 + (s[2] \div 16), (s[2] % 16) * 16 + (s[3] \div 4),
         (s[3] % 4) * 64 + s[4]>>
       \o fromSextets(SubSeq(s, 5, Len(s)))

\* decoding stops at the first "="
fromBase64(t) ==
  LET n == IF \E i \in 1..Len(t) : t[i] = Pad
           THEN (CHOOSE i \in 1..Len(t) :
                    t[i] = Pad /\ \A j \in 1..(i - 1) : t[j] # Pad) - 1
           ELSE Len(t)
  IN fromSextets(SubSeq(t, 1, n))

----------------------------------------------------------------------------
(* Build configuration (TailwindOptions) and the cache key *)

\* options.plugins is <<>> when undefined, <<list>> when given
Options(enable, plugins) == [enable |-> enable, plugins |-> plugins]

NoPlugins == <<>>

getCacheKey(htmlPath, options) ==
  htmlPath
    \o (IF options.enable THEN ":tw" ELSE "")
    \o (IF options.plugins # NoPlugins
        THEN ":" \o ToString(Len(options.plugins[1]))
        ELSE "")

\* Bun.hash(cacheKey).toString(16) + ".json": the hash is taken to be
\* collision-free, so the file name determines the key
cacheFile(cacheKey) == "hash(" \o cacheKey \o ").json"

----------------------------------------------------------------------------
(* The inputs of the model *)

cfgOff == Options(FALSE, NoPlugins)

cfgTw == Options(TRUE, NoPlugins)

Entries == {"a"}

CallArgs == {<<"a", cfgOff>>, <<"a", cfgTw>>}

AllKeys == {getCacheKey(a[1], a[2]) : a \in CallArgs}

\* the file, relative to the watched directory, that holds an entry's source
EntryFile(e) == <<"a", ".", "h", "t", "m", "l">>

NoiseFiles ==
  { <<"n", "o", "d", "e", "_", "m", "o", "d", "u", "l", "e", "s", "/", "x">>,
    <<".", "g", "i", "t", "/", "H">>,
    <<".", "g", "i", "t", "i", "g", "n", "o", "r", "e">>,
    <<".", "e", "b", "w", "-", "c", "a", "c", "h", "e", "/", "h">> }

\* a watch event carries <<>> (no filename) or <<filename>>
EventNames == {<<>>} \cup {<<f>> : f \in NoiseFiles}
                     \cup {<<EntryFile(e)>> : e \in Entries}

\* Date.now() as a build reads it: one of two instants
Timestamps == {0, 1}

\* Scenarios.  A production server is asked for both configurations of
\* the entry and a development server for one, or for both in "watch".  The scenarios differ in
\* the server they start from, in the history they record and in whether
\* Date.now() varies.
\*   "base"   a server from its construction on, in either mode, with any
\*            leftover cache directory and several listeners; every
\*            step's outcome is recorded
\*   "seen"   production; an earlier return is remembered
\*   "owed"   production; the keys clearCache dropped are remembered
\*   "again"  development; an earlier return is remembered; Date.now()
\*            varies
\*   "start"  development; an invocation remembers the source version at
\*            its call
\*   "noise"  development; the watch event of a step is recorded
\*   "fail"   development; the keys a watcher evicted and no build has
\*            put back since are remembered, and the notifications
\*   "watch"  development; both configurations of the entry are asked for
\*   "mode"   a server that has finished starting, in either mode; the
\*            returns of successful builds are remembered
\*   "record" production; a build whose compiler has just returned
\*   "load"   production, over any leftover cache directory, the sources
\*            unchanged; a return without a compile is remembered
\*   "key"    getCacheKey alone
\*   "same"   the calls made together for one key, in production
\*   "race"   the watcher's rebuilds when every compile succeeds
\*   "serve"  one @Serve route, from its pre-build to its requests
\*   "auth"   requests to controller routes alone
\*   "role"   requests to routes behind the role check alone
\*   "security" requests to the security-requirement middleware alone
\*   "asset"  getAsset alone
Scenarios ==
  {"base", "seen", "owed", "again", "start", "noise", "fail", "watch",
   "mode", "record", "load", "key", "asset", "auth",
   "role", "security", "same", "race", "serve"}

ArgsNow ==
  IF env = "serve" THEN {<<keyQ.p2, keyQ.o2>>}
  ELSE IF devMode /\ env # "watch" THEN {<<"a", cfgOff>>}
  ELSE CallArgs

StampsNow == IF env = "again" THEN Timestamps ELSE {0}

\* the number of edits to an entry's sources; a rebuild that fails is
\* followed by a further edit
Edits == IF env \in {"fail", "race"} THEN MaxVer + 1 ELSE MaxVer

\* the events that change no source are sent where a step's event is
\* recorded
EventsNow ==
  IF env \in {"base", "noise"} THEN EventNames
  ELSE {<<EntryFile(e)>> : e \in Entries}

----------------------------------------------------------------------------
(* The compiler (Bun.build): outputs as a function of the entry, the       *)
(* content version it read, the plugins passed and the minify flag         *)

Html(e, v, pl, min) ==
  [e |-> e, v |-> v, pl |-> pl, min |-> min, hmr |-> FALSE, ts |-> 0]

jsBytes(v, min) ==
  IF min THEN (IF v % 2 = 0 THEN <<104, 255>> ELSE <<77>>) ELSE <<v, 10, 59>>

BuildOutputs(htmlPath, v, pl, min) ==
  << [path |-> <<".", "/", "a", "-", ToString(v), ".", "j", "s">>,
      type |-> "text/javascript;charset=utf-8",
      bytes |-> jsBytes(v, min),
      text |-> <<>>],
     [path |-> <<".", "\\", "a", ".", "h", "t", "m", "l">>,
      type |-> "text/html;charset=utf-8",
      bytes |-> <<>>,
      text |-> <<Html(htmlPath, v, pl, min)>>] >>

\* plugins = [...(options.plugins || [])], plus tailwindPlugin when enabled
pluginCount(options) ==
  (IF options.plugins # NoPlugins THEN Len(options.plugins[1]) ELSE 0)
    + (IF options.enable THEN 1 ELSE 0)

----------------------------------------------------------------------------
(* Persisted records.  kind "ok" parses and has html and assets; kind      *)
(* "unparseable" makes JSON.parse or the read throw; kind "noassets"       *)
(* parses, has html, and has no assets object.                             *)

\* the record is written without the assets
Record_htmlOnly(kind, html, recAssets) ==
  [kind |-> kind, html |-> html, assets |-> EmptyMap]

Record(kind, html, recAssets) ==
  [kind |-> kind, html |-> html, assets |-> recAssets]

\* what a previous process may have left in the cache directory
LeftoverDisks ==
  { EmptyMap,
    Put(EmptyMap, cacheFile("a"),
        Record("ok", <<Html("a", 0, 0, TRUE)>>,
               Put(EmptyMap, <<"/", "o", ".", "j", "s">>,
                   [type |-> "text/javascript;charset=utf-8",
                    content |-> toBase64(<<1, 2, 3, 4>>)]))),
    Put(EmptyMap, cacheFile("a"), Record("unparseable", <<>>, EmptyMap)),
    Put(EmptyMap, cacheFile("a"),
        Record("noassets", <<Html("a", 0, 0, TRUE)>>, EmptyMap)) }

\* the cache directories whose every record loads
ParsedLeftovers ==
  {D \in LeftoverDisks : \A f \in DOMAIN D : D[f].kind = "ok"}

\* the disk tier is not skipped in development mode
loadFromDisk_result_noSkip(dm, D, cacheKey) ==
  IF Has(D, cacheFile(cacheKey)) /\ D[cacheFile(cacheKey)].kind = "ok"
  THEN D[cacheFile(cacheKey)].html
  ELSE <<>>

\* loadFromDisk, lines 81-104: its result and its writes to the two maps
loadFromDisk_result(dm, D, cacheKey) ==
  IF dm THEN <<>>
  ELSE IF Has(D, cacheFile(cacheKey)) /\ D[cacheFile(cacheKey)].kind = "ok"
  THEN D[cacheFile(cacheKey)].html
  ELSE <<>>

\* the in-process store is not hydrated
loadFromDisk_htmlCache_none(dm, D, H, cacheKey) == H

loadFromDisk_htmlCache(dm, D, H, cacheKey) ==
  IF dm THEN H
  ELSE IF Has(D, cacheFile(cacheKey))
          /\ D[cacheFile(cacheKey)].kind \in {"ok", "noassets"}
  THEN Put(H, cacheKey, D[cacheFile(cacheKey)].html[1])
  ELSE H

\* the Asset Table is emptied before the record is read
loadFromDisk_assets_clearsFirst(dm, D, A, cacheKey) ==
  IF dm THEN A
  ELSE IF Has(D, cacheFile(cacheKey)) /\ D[cacheFile(cacheKey)].kind = "ok"
  THEN LET ra == D[cacheFile(cacheKey)].assets
       IN [p \in DOMAIN ra |->
             [type |-> ra[p].type, content |-> fromBase64(ra[p].content)]]
  ELSE IF Has(D, cacheFile(cacheKey)) THEN EmptyMap
  ELSE A

loadFromDisk_assets(dm, D, A, cacheKey) ==
  IF dm THEN A
  ELSE IF Has(D, cacheFile(cacheKey)) /\ D[cacheFile(cacheKey)].kind = "ok"
  THEN LET ra == D[cacheFile(cacheKey)].assets
       IN [p \in (DOMAIN A) \cup (DOMAIN ra) |->
             IF p \in DOMAIN ra
             THEN [type |-> ra[p].type, content |-> fromBase64(ra[p].content)]
             ELSE A[p]]
  ELSE A

----------------------------------------------------------------------------
(* The state of one buildAndCache invocation *)

IdleCall ==
  [pc |-> "idle", htmlPath |-> "", options |-> cfgOff, cacheKey |-> "",
   origin |-> "", minify |-> FALSE, readVer |-> 0, outputs |-> <<>>,
   idx |-> 0, htmlContent |-> <<>>, currentBuildAssets |-> EmptyMap,
   result |-> <<>>, error |-> "",
   \* history of the invocation, read by the properties only; late says
   \* that the html was built from sources older than those at the call
   compiles |-> 0, diskReads |-> 0, touched |-> FALSE, persisted |-> FALSE,
   later |-> FALSE, startVer |-> 0, prod |-> FALSE,
   owed |-> FALSE, stale |-> FALSE, late |-> FALSE]

\* the invocation has settled: its locals are dropped
Settled(r, result, error) ==
  [r EXCEPT !.pc = "done", !.idx = 0, !.readVer = 0, !.startVer = 0,
            !.htmlContent = <<>>, !.currentBuildAssets = EmptyMap,
            !.minify = FALSE, !.result = result, !.error = error]

InFlight == BagToSet(calls)

Enter(B, r) == B (+) SetToBag({r})

Leave(B, r) == B (-) SetToBag({r})

----------------------------------------------------------------------------
(* setupWatcher, lines 106-148: the registry is keyed by the cache key *)

setupWatcher(W, htmlPath, options) ==
  IF Has(W, getCacheKey(htmlPath, options)) THEN W
  ELSE Put(W, getCacheKey(htmlPath, options),
           [htmlPath |-> htmlPath, options |-> options])

\* every armed watcher has a queue of undelivered events
queues(P, W) == [k \in DOMAIN W |-> IF k \in DOMAIN P THEN P[k] ELSE <<>>]

----------------------------------------------------------------------------
(* notify, lines 62-64: forEach stops at the first listener that throws *)

notified(L) ==
  LET m == IF \E i \in 1..Len(L) : L[i].throws
           THEN CHOOSE i \in 1..Len(L) :
                  L[i].throws /\ \A j \in 1..(i - 1) : ~L[j].throws
           ELSE Len(L)
  IN [i \in 1..m |-> i]

\* the notification is sent whether or not the rebuild succeeded
afterRebuild_always(r) ==
  IF r.origin = "watcher"
  THEN <<[html |-> IF r.error = "" THEN r.result[1]
                   ELSE Html(r.htmlPath, 0, 0, FALSE),
          invoked |-> notified(listeners), count |-> Len(listeners)]>>
  ELSE <<>>

\* the watcher callback's continuation after "await this.buildAndCache",
\* lines 138-143: on success notify({html: newHtml}), on failure log
afterRebuild(r) ==
  IF r.origin = "watcher" /\ r.error = ""
  THEN <<[html |-> r.result[1], invoked |-> notified(listeners),
          count |-> Len(listeners)]>>
  ELSE <<>>

\* history: the part of a settled invocation that the scenario keeps
Kept(r) ==
  IF env \in {"base", "record"} THEN <<r>>
  ELSE IF env = "same" THEN (IF r.compiles = 1 THEN <<r>> ELSE <<>>)
  ELSE IF \/ env \in {"seen", "again"} /\ r.later
          \/ env = "owed" /\ r.owed
          \/ env = "start"
          \/ env = "load" /\ r.compiles = 0
          \/ env \in {"fail", "race"} /\ r.origin = "watcher"
          \/ env = "mode" /\ r.compiles = 1 /\ r.error = ""
          \/ env = "mode" /\ ~r.prod
          \/ env = "serve"
  THEN <<[r EXCEPT !.outputs = <<>>]>>
  ELSE <<>>

\* the outcome of a step: the watch event it handled, the invocation that
\* settled in it, and the notification sent in it
Outcome(event, settled, notify) ==
  IF env = "noise"
  THEN \* only of the steps that handle an event
       [event |-> event,
        settled |-> IF event = <<>> \/ settled = <<>> THEN <<>>
                    ELSE <<[settled[1] EXCEPT !.outputs = <<>>]>>,
        notify |-> IF event = <<>> THEN <<>> ELSE notify]
  ELSE [event |-> IF env = "base" THEN event ELSE <<>>,
        settled |-> IF settled = <<>> THEN <<>> ELSE Kept(settled[1]),
        notify |-> IF env \in {"base", "fail", "race"} THEN notify
                   ELSE <<>>]

Quiet == [event |-> <<>>, settled |-> <<>>, notify |-> <<>>]

\* an invocation settles: its caller sees the result, and the watcher
\* callback goes on to notify
Settle(event, r) == Outcome(event, <<r>>, afterRebuild(r))

\* history: a successful return may be kept as the earlier call that later
\* calls with the same arguments are compared with; in "again" it is a
\* return of html built from the sources as they are now
Keepable(r) ==
  /\ env \in {"seen", "again"}
  /\ r.error = ""
  /\ seen = <<>>
  /\ env = "again" => r.result[1].v = srcVer[r.htmlPath]

\* history: the calls still in flight for key k have seen a call for k,
\* in flight together with them, return its html first
Overtaken(B, k) ==
  IF env # "same" THEN B
  ELSE LET mark(r) == IF r.cacheKey = k THEN [r EXCEPT !.later = TRUE]
                      ELSE r
           T == {mark(r) : r \in BagToSet(B)}
       IN [t \in T |->
             IF t.cacheKey = k
             THEN CopiesIn(t, B) + CopiesIn([t EXCEPT !.later = FALSE], B)
             ELSE CopiesIn(t, B)]

Remember(r, keep) ==
  /\ keep => Keepable(r)
  /\ IF Keepable(r) /\ keep
     THEN seen' = <<[htmlPath |-> r.htmlPath, options |-> r.options,
                     html |-> r.result[1]]>>
     ELSE seen' = seen

SeenFor(htmlPath, options) ==
  seen # <<>> /\ seen[1].htmlPath = htmlPath /\ seen[1].options = options

----------------------------------------------------------------------------
(* buildAndCache, lines 150-190: from the call to the first real wait.     *)
(* H, D, P are the in-process store, the disk and the event queues as the  *)
(* caller leaves them.                                                     *)

\* the mode test is missing
memoryHit_anyMode(dm, H, cacheKey) == Has(H, cacheKey)

memoryHit(dm, H, cacheKey) == ~dm /\ Has(H, cacheKey)

Begin(htmlPath, options, origin, event, H, D, P, keep) ==
  LET cacheKey == getCacheKey(htmlPath, options)
      diskHtml == loadFromDisk_result(devMode, D, cacheKey)
      H2 == loadFromDisk_htmlCache(devMode, D, H, cacheKey)
      A2 == loadFromDisk_assets(devMode, D, assets, cacheKey)
      W2 == IF devMode THEN setupWatcher(watchers, htmlPath, options)
            ELSE watchers
      r0 == [IdleCall EXCEPT
               !.htmlPath = htmlPath, !.options = options,
               !.cacheKey = cacheKey, !.origin = origin,
               !.later = SeenFor(htmlPath, options),
               !.startVer = IF env = "start" THEN srcVer[htmlPath] ELSE 0,
               \* the watcher has evicted the key and its rebuild is
               \* running, yet an older build has put back html from
               \* before the change
               !.stale = /\ env = "start"
                         /\ Has(H, cacheKey)
                         /\ H[cacheKey].v < srcVer[htmlPath]
                         /\ \E w \in InFlight : /\ w.origin = "watcher"
                                                /\ w.cacheKey = cacheKey,
               !.prod = ~devMode,
               !.owed = (env = "owed" /\ cacheKey \in owed)]
  IN /\ phase \in {"loading", "serving"}
     /\ BagCardinality(calls) < MaxCalls
     \* history
     /\ owed' = IF env # "fail" THEN owed \ {cacheKey}
                ELSE IF origin = "watcher" THEN owed \cup {cacheKey}
                ELSE owed
     /\ disk' = D
     /\ IF memoryHit(devMode, H, cacheKey)
        THEN LET r == Settled([r0 EXCEPT
                                  !.late = H[cacheKey].v < r0.startVer],
                              <<H[cacheKey]>>, "")
             IN /\ calls' = calls
                /\ htmlCache' = H
                /\ assets' = assets
                /\ watchers' = watchers
                /\ pending' = P
                /\ out' = Settle(event, r)
                /\ Remember(r, keep)
        ELSE IF diskHtml # <<>>
        THEN LET r == Settled([r0 EXCEPT !.diskReads = 1,
                                          !.late = diskHtml[1].v < r0.startVer,
                                          !.touched = (H2 # H \/ A2 # assets
                                                       \/ W2 # watchers)],
                              diskHtml, "")
             IN /\ calls' = calls
                /\ htmlCache' = H2
                /\ assets' = A2
                /\ watchers' = W2
                /\ pending' = queues(P, W2)
                /\ out' = Settle(event, r)
                /\ Remember(r, keep)
        ELSE /\ calls' = Enter(calls,
                  [r0 EXCEPT !.pc = "building",
                             !.minify = ~devMode,
                             !.compiles = 1,
                             !.diskReads = IF devMode THEN 0 ELSE 1,
                             !.touched = (H2 # H \/ A2 # assets)])
             /\ ~keep
             /\ htmlCache' = H2
             /\ assets' = A2
             /\ watchers' = watchers
             /\ pending' = P
             /\ out' = Outcome(event, <<>>, <<>>)
             /\ seen' = seen

\* a request (the Serve wrapper or the pre-build) calls buildAndCache
Request(htmlPath, options, keep) ==
  /\ <<htmlPath, options>> \in ArgsNow
  /\ phase = "serving"
  /\ Begin(htmlPath, options, "request", <<>>, htmlCache, disk, pending, keep)
  /\ UNCHANGED <<env, phase, devMode, listeners, srcVer, keyQ, lookup,
                 auth>>

\* Bun.build reads the entry's sources at some moment while it runs
CompilerRead(r) ==
  /\ r.pc = "building"
  /\ calls' = Enter(Leave(calls, r),
                    [r EXCEPT !.pc = "compiled",
                              !.readVer = srcVer[r.htmlPath],
                              !.late = srcVer[r.htmlPath] < r.startVer,
                              !.startVer = 0])
  /\ out' = Quiet
  /\ UNCHANGED <<env, phase, devMode, htmlCache, assets, disk, watchers, listeners,
                 srcVer, pending, seen, owed, keyQ, lookup,
                 auth>>

\* Bun.build settles, lines 178-190
BuildDone(r, success) ==
  /\ r.pc = "compiled"
  /\ IF success
     THEN /\ calls' = Enter(Leave(calls, r),
                 [r EXCEPT !.pc = "outputs",
                           !.idx = 1,
                           !.outputs = BuildOutputs(r.htmlPath, r.readVer,
                                                    pluginCount(r.options),
                                                    r.minify)])
          /\ out' = Quiet
     ELSE /\ calls' = Leave(calls, r)
          /\ out' = Settle(<<>>, Settled(r, <<>>, "Build failed"))
  /\ UNCHANGED <<env, phase, devMode, htmlCache, assets, disk, watchers, listeners,
                 srcVer, pending, seen, owed, keyQ, lookup,
                 auth>>

----------------------------------------------------------------------------
(* buildAndCache, lines 198-303: one output per wait, and after the last   *)
(* output the injection, the watcher, the two stores and the return        *)

dotHtml == <<".", "h", "t", "m", "l">>

\* the reload script is not appended
inject_stampOnly(h, t) == [h EXCEPT !.ts = t]

\* lines 270-283: the timestamp goes on the .js/.css links, the reload
\* script is appended
inject(h, t) == [h EXCEPT !.hmr = TRUE, !.ts = t]

\* the entries of earlier builds are dropped
setAsset_replacing(A, webPath, asset) == Put(EmptyMap, webPath, asset)

\* line 211: this._assets.set(webPath, asset)
setAsset(A, webPath, asset) == Put(A, webPath, asset)

\* the record is written in development mode too
writeRecord_anyMode(dm, D, cacheKey, html, buildAssets) ==
  Put(D, cacheFile(cacheKey), Record("ok", <<html>>, buildAssets))

\* lines 291-301: outside development mode the html and the build's own
\* side-assets are written as the key's record
writeRecord(dm, D, cacheKey, html, buildAssets) ==
  IF dm THEN D
  ELSE Put(D, cacheFile(cacheKey), Record("ok", <<html>>, buildAssets))

Output(r, writeOk, t, keep) ==
  LET output == r.outputs[r.idx]
      filename == Last(SplitOn(output.path, {"/", "\\"}))
      webPath == <<"/">> \o filename
      isHtml == output.type = "text/html" \/ EndsWith(filename, dotHtml)
      htmlContent == IF isHtml THEN output.text ELSE r.htmlContent
      A2 == IF isHtml THEN assets
            ELSE setAsset(assets, webPath,
                          [type |-> output.type, content |-> output.bytes])
      currentBuildAssets ==
        IF isHtml THEN r.currentBuildAssets
        ELSE Put(r.currentBuildAssets, webPath,
                 [type |-> output.type, content |-> toBase64(output.bytes)])
      \* after the loop
      html3 == IF devMode THEN inject(htmlContent[1], t)
               ELSE htmlContent[1]
      W3 == IF devMode
            THEN setupWatcher(watchers, r.htmlPath, r.options)
            ELSE watchers
      H3 == Put(htmlCache, r.cacheKey, html3)
      D3 == writeRecord(devMode, disk, r.cacheKey, html3, currentBuildAssets)
      touched3 == [r EXCEPT !.touched = TRUE]
  IN /\ r.pc = "outputs"
     /\ IF r.idx < Len(r.outputs)
        THEN /\ writeOk /\ ~keep /\ t = 0
             /\ calls' = Enter(Leave(calls, r),
                   [r EXCEPT !.idx = r.idx + 1,
                             !.htmlContent = htmlContent,
                             !.currentBuildAssets = currentBuildAssets,
                             !.touched = (r.touched \/ A2 # assets)])
             /\ assets' = A2
             /\ out' = Quiet
             /\ UNCHANGED <<htmlCache, disk, watchers, pending, seen, owed>>
        ELSE /\ t \in StampsNow
             /\ devMode => writeOk
             /\ assets' = A2
             /\ watchers' = W3
             /\ pending' = queues(pending, W3)
             /\ htmlCache' = H3
             /\ calls' = IF devMode \/ writeOk
                         THEN Overtaken(Leave(calls, r), r.cacheKey)
                         ELSE Leave(calls, r)
             /\ IF devMode \/ writeOk
                THEN LET rd == Settled([touched3 EXCEPT
                                           !.persisted = ~devMode],
                                       <<html3>>, "")
                     IN /\ disk' = D3
                        /\ out' = Settle(<<>>, rd)
                        /\ Remember(rd, keep)
                        \* history
                        /\ owed' = IF env = "fail" THEN owed \ {r.cacheKey}
                                   ELSE owed
                ELSE LET rd == Settled(touched3, <<>>, "write failed")
                     IN /\ disk' = disk
                        /\ ~keep
                        /\ out' = Settle(<<>>, rd)
                        /\ seen' = seen
                        /\ owed' = owed
     /\ UNCHANGED <<env, phase, devMode, listeners, srcVer, keyQ, lookup,
                 auth>>

----------------------------------------------------------------------------
(* The fs.watch callback, lines 116-144 *)

nodeModules == <<"n", "o", "d", "e", "_", "m", "o", "d", "u", "l", "e", "s">>

dotGit == <<".", "g", "i", "t">>

dotEbwCache == <<".", "e", "b", "w", "-", "c", "a", "c", "h", "e">>

\* the .git test is missing
ignored_noGit(ev) ==
  \/ ev = <<>>
  \/ Includes(ev[1], nodeModules)
  \/ Includes(ev[1], dotEbwCache)

\* lines 117-125: the events the callback returns on without acting
ignored(ev) ==
  \/ ev = <<>>
  \/ Includes(ev[1], nodeModules)
  \/ Includes(ev[1], dotGit)
  \/ Includes(ev[1], dotEbwCache)

IsEntryEvent(ev) == \E e \in Entries : ev = <<EntryFile(e)>>

\* an event about an entry's file is delivered in the order of the
\* changes; the other events change no source and may arrive at any time
WatchEvent(k, ev) ==
  /\ k \in DOMAIN watchers
  /\ ev \in EventsNow
  /\ IsEntryEvent(ev) => (pending[k] # <<>> /\ ev = Head(pending[k]))
  /\ LET P1 == IF IsEntryEvent(ev)
               THEN [pending EXCEPT ![k] = Tail(@)]
               ELSE pending
     IN IF ignored(ev)
        THEN /\ pending' = P1
             /\ out' = Outcome(<<[name |-> ev]>>, <<>>, <<>>)
             /\ UNCHANGED <<htmlCache, assets, disk, watchers, calls,
                            seen, owed>>
        ELSE Begin(watchers[k].htmlPath, watchers[k].options, "watcher",
                   <<[name |-> ev]>>,
                   Del(htmlCache, k), Del(disk, cacheFile(k)), P1, FALSE)
  /\ UNCHANGED <<env, phase, devMode, listeners, srcVer, keyQ, lookup,
                 auth>>

\* history: calls in flight no longer count as made after the kept return
Forget(B) ==
  LET T == {[r EXCEPT !.later = FALSE] : r \in BagToSet(B)}
  IN [t \in T |-> CopiesIn(t, B) + CopiesIn([t EXCEPT !.later = TRUE], B)]

\* the source of entry e changes on disk; every armed watcher (all
\* entries live in the same directory) is sent the event
FileChange(e) ==
  /\ \A k \in DOMAIN watchers : Len(pending[k]) < MaxPending
  /\ srcVer[e] < Edits
  /\ srcVer' = [srcVer EXCEPT ![e] = @ + 1]
  /\ pending' = [k \in DOMAIN pending |->
                   Append(pending[k], <<EntryFile(e)>>)]
  /\ out' = Quiet
  \* history: in "again" the kept return is of the sources before the edit
  /\ seen' = IF env = "again" THEN <<>> ELSE seen
  /\ calls' = IF env = "again" THEN Forget(calls) ELSE calls
  /\ UNCHANGED <<env, phase, devMode, htmlCache, assets, disk, watchers, listeners,
                 owed, keyQ, lookup,
                 auth>>

----------------------------------------------------------------------------
(* The other public operations *)

\* lines 31-45
clearCache ==
  /\ phase = "serving"
  /\ disk' = EmptyMap
  /\ htmlCache' = EmptyMap
  /\ assets' = EmptyMap
  /\ owed' = IF env = "owed"
             THEN {k \in AllKeys :
                     Has(htmlCache, k) \/ Has(disk, cacheFile(k))}
             ELSE IF env = "fail" THEN owed
             ELSE {}
  /\ seen' = <<>>
  /\ calls' = Forget(calls)
  /\ out' = Quiet
  /\ UNCHANGED <<env, phase, devMode, watchers, listeners, srcVer, pending,
                 keyQ, lookup,
                 auth>>

\* lines 54-56; the server's constructor calls it, with true, before any
\* route is built (Server.ts lines 93-102)
setDevMode(enabled) ==
  /\ phase = "constructing"
  /\ devMode' = enabled
  /\ out' = Quiet
  /\ UNCHANGED <<env, phase, htmlCache, assets, disk, watchers, listeners, calls,
                 srcVer, pending, seen, owed, keyQ, lookup,
                 auth>>

\* lines 58-60; the server registers its listener when it sets the
\* development mode (Server.ts lines 101-103)
onRebuild(throws) ==
  /\ devMode
  /\ Len(listeners) < MaxListeners
  /\ listeners' = Append(listeners, [throws |-> throws])
  /\ out' = Quiet
  /\ UNCHANGED <<env, phase, devMode, htmlCache, assets, disk, watchers, calls,
                 srcVer, pending, seen, owed, keyQ, lookup,
                 auth>>

\* Server.init, Server.ts line 131: the controllers are loaded and
\* requests are served from here on
init ==
  /\ phase = "constructing"
  /\ phase' = "serving"
  /\ out' = Quiet
  /\ UNCHANGED <<env, devMode, htmlCache, assets, disk, watchers, listeners,
                 calls, srcVer, pending, seen, owed, keyQ, lookup,
                 auth>>

----------------------------------------------------------------------------
(* The authentication middleware that loadControllers puts before a route, *)
(* src/src/Server/Server.ts lines 377-438.  A JSON Web Token is one        *)
(* symbol of the header; jwt.verify accepts it when it was signed with the *)
(* secret given and has not expired.  An absent header, like an absent     *)
(* secret, is the empty one.                                               *)

Unauthorized == 401

NotConfigured == 500

Bearer == <<"B", "e", "a", "r", "e", "r">>

Tokens == {"t1", "t2", "tEnv", "t1Expired", "junk"}

signedWith(tok) ==
  CASE tok \in {"t1", "t1Expired"} -> "s1"
    [] tok = "t2" -> "s2"
    [] tok = "tEnv" -> "sEnv"
    [] OTHER -> ""

expired(tok) == tok = "t1Expired"

payload(tok) == [sub |-> tok]

\* jwt.verify(token, secret): <<payload>>, or <<>> when it throws
verify(token, secret) ==
  IF /\ Len(token) = 1
     /\ token[1] \in Tokens
     /\ signedWith(token[1]) = secret
     /\ ~expired(token[1])
  THEN <<payload(token[1])>>
  ELSE <<>>

\* the metadata of @Authorize: <<>> without the decorator, <<"">> for
\* @Authorize() and <<s>> for @Authorize(s)
AuthorizeMetadata == {<<>>, <<"">>, <<"s1">>, <<"s2">>}

\* a route: the decorators on the method and on its controller class
Routes ==
  [authorize : AuthorizeMetadata, classAuthorize : AuthorizeMetadata,
   required : BOOLEAN, classRequired : BOOLEAN]

\* process.env.JWT_SECRET
EnvSecrets == {"", "sEnv", "s1"}

AuthHeaders ==
  { <<>>,
    <<"B", "a", "s", "i", "c", " ", "t1">>,
    <<"b", "e", "a", "r", "e", "r", " ", "t1">>,
    Bearer,
    Bearer \o <<" ">>,
    Bearer \o <<" ", " ", "t1">>,
    Bearer \o <<" ", "t1", " ", "x">> }
  \cup {Bearer \o <<" ", t>> : t \in Tokens}

\* lines 378-395: the method's metadata, else the class's
authorizeMetadata(route) ==
  IF route.authorize # <<>> THEN route.authorize ELSE route.classAuthorize

authRequiredMetadata(route) == route.required \/ route.classRequired

startsWith(s, sub) == IsPrefixAt(s, sub, 1)

\* the process variable comes before the decorator's secret
secretOf_envFirst(route, envSecret) ==
  IF envSecret # "" THEN envSecret
  ELSE IF authorizeMetadata(route) # <<>> THEN authorizeMetadata(route)[1]
  ELSE ""

\* line 411: authorizeMetadata?.secret || process.env.JWT_SECRET
secretOf(route, envSecret) ==
  IF authorizeMetadata(route) # <<>> /\ authorizeMetadata(route)[1] # ""
  THEN authorizeMetadata(route)[1]
  ELSE envSecret

\* the middleware answers itself, or calls next() with req.user
Respond(status, error) ==
  [status |-> status, error |-> error, next |-> FALSE, user |-> <<>>]

Pass(user) == [status |-> 0, error |-> "", next |-> TRUE, user |-> user]

\* the test of authRequiredMetadata is missing
unauthenticated_alwaysNext(route, error) == Pass(<<>>)

\* lines 403-407 and 422-426
unauthenticated(route, error) ==
  IF authRequiredMetadata(route) THEN Respond(Unauthorized, error)
  ELSE Pass(<<>>)

\* lines 400-428
authMiddleware(route, envSecret, authHeader) ==
  IF authHeader = <<>> \/ ~startsWith(authHeader, Bearer \o <<" ">>)
  THEN unauthenticated(route, "Unauthorized")
  ELSE LET token == SplitOn(authHeader, {" "})[2]
           secret == secretOf(route, envSecret)
       IN IF secret = ""
          THEN Respond(NotConfigured, "JWT secret not configured")
          ELSE IF verify(token, secret) # <<>>
          THEN Pass(verify(token, secret))
          ELSE unauthenticated(route, "Invalid token")

\* a request reaches the route registered at startup: the middleware,
\* when the route has one, then the handler with req.user (lines 397,
\* 432-438)
Dispatch(authHeader) ==
  LET route == auth.route[1]
      envSecret == auth.envSecret
      m == IF authorizeMetadata(route) # <<>> \/ authRequiredMetadata(route)
           THEN authMiddleware(route, envSecret, authHeader)
           ELSE Pass(<<>>)
  IN /\ auth' = [auth EXCEPT !.header = <<authHeader>>, !.status = m.status,
                             !.error = m.error, !.handled = m.next,
                             !.user = m.user]
     /\ UNCHANGED <<env, phase, devMode, htmlCache, assets, disk, watchers,
                    listeners, calls, srcVer, pending, out, seen, owed, keyQ,
                    lookup>>

----------------------------------------------------------------------------
(* The security-requirement middleware, createAuthMiddleware               *)
(* (src/src/Components/Server.ts lines 494-549, the same text as           *)
(* src/unnamed/part_014 lines 620-675).  A requirement is the list of its  *)
(* scheme names; a configured handler passes (calls its callback without   *)
(* an error), fails (calls it with an error), answers the request itself   *)
(* and never calls it, or calls it twice.  The outcome counts the calls of *)
(* next() and the 401 answers.                                             *)

MaxRequirements == 2

Schemes == {"bearerAuth", "apiKey", "basic"}

Requirements ==
  {<<>>, <<"bearerAuth">>, <<"apiKey">>, <<"basic">>,
   <<"apiKey", "bearerAuth">>}

\* the lists loadControllers hands over: it skips the empty one
RequirementLists ==
  UNION {[1..n -> Requirements] : n \in 1..MaxRequirements}

HandlerKinds == {"pass", "fail", "never", "twice"}

\* securityHandlers: scheme -> handler, for the schemes that have one
SecurityHandlers(kinds) ==
  UNION {[S -> kinds] : S \in SUBSET Schemes}

Outcome0 == [next |-> 0, rejected |-> 0]

Plus(a, b) == [next |-> a.next + b.next, rejected |-> a.rejected + b.rejected]

RECURSIVE checkRequirement(_, _, _)
RECURSIVE checkScheme(_, _, _, _)

\* a missing handler lets the scheme pass
checkScheme_missingPasses(requirements, handlers, index, schemeIndex) ==
  LET schemes == requirements[index]
  IN IF schemeIndex > Len(schemes)
     THEN [next |-> 1, rejected |-> 0]
     ELSE LET scheme == schemes[schemeIndex]
          IN IF ~Has(handlers, scheme)
             THEN checkScheme(requirements, handlers, index, schemeIndex + 1)
             ELSE CASE handlers[scheme] = "pass" ->
                         checkScheme(requirements, handlers, index,
                                     schemeIndex + 1)
                    [] handlers[scheme] = "fail" ->
                         checkRequirement(requirements, handlers, index + 1)
                    [] handlers[scheme] = "never" -> Outcome0
                    [] handlers[scheme] = "twice" ->
                         Plus(checkScheme(requirements, handlers, index,
                                          schemeIndex + 1),
                              checkScheme(requirements, handlers, index,
                                          schemeIndex + 1))

\* lines 514-542; indices count from 1
checkScheme(requirements, handlers, index, schemeIndex) ==
  LET schemes == requirements[index]
  IN IF schemeIndex > Len(schemes)
     THEN [next |-> 1, rejected |-> 0]
     ELSE LET scheme == schemes[schemeIndex]
          IN IF ~Has(handlers, scheme)
             THEN checkRequirement(requirements, handlers, index + 1)
             ELSE CASE handlers[scheme] = "pass" ->
                         checkScheme(requirements, handlers, index,
                                     schemeIndex + 1)
                    [] handlers[scheme] = "fail" ->
                         checkRequirement(requirements, handlers, index + 1)
                    [] handlers[scheme] = "never" -> Outcome0
                    [] handlers[scheme] = "twice" ->
                         Plus(checkScheme(requirements, handlers, index,
                                          schemeIndex + 1),
                              checkScheme(requirements, handlers, index,
                                          schemeIndex + 1))

\* lines 500-545
checkRequirement(requirements, handlers, index) ==
  IF index > Len(requirements) THEN [next |-> 0, rejected |-> 1]
  ELSE IF Len(requirements[index]) = 0 THEN [next |-> 1, rejected |-> 0]
  ELSE checkScheme(requirements, handlers, index, 1)

\* lines 494-549
createAuthMiddleware(requirements, handlers) ==
  IF Len(requirements) = 0 THEN [next |-> 1, rejected |-> 0]
  ELSE checkRequirement(requirements, handlers, 1)

\* a request meets the middleware built at startup for the route
Authenticate ==
  /\ auth' = [auth EXCEPT
                !.served = TRUE,
                !.outcome = createAuthMiddleware(auth.requirements,
                                                 auth.handlers)]
  /\ UNCHANGED <<env, phase, devMode, htmlCache, assets, disk, watchers,
                 listeners, calls, srcVer, pending, out, seen, owed, keyQ,
                 lookup>>

----------------------------------------------------------------------------
(* The middlewares that loadControllers of src/unnamed/part_014 puts       *)
(* before a route (lines 351-550): the role check of a route that is not   *)
(* public, then the security-requirement middleware.  A roles list is      *)
(* <<>> when the decorator is absent and <<list>> otherwise; user is what  *)
(* UserHandler.authenticate returns or, without a UserHandler, req.user.   *)

Forbidden == 403

RolesMetadata == {<<>>, << <<>> >>, << <<"admin">> >>}

Users ==
  { <<>>,
    <<[roles |-> <<"admin">>]>>,
    <<[roles |-> <<"user">>]>>,
    <<[role |-> "admin"]>>,
    <<[name |-> "x"]>> }

RoleHandlers == {"none", "allow", "deny", "throw"}

RoleRoutes ==
  [isPublic : BOOLEAN,
   methodRoles : RolesMetadata,
   classRoles : {<<>>, << <<"admin">> >>},
   swagger : {<<>>, << <<"bearerAuth">> >>},
   classSecurity : {<<>>, << <<"apiKey">> >>},
   methodSecurity : {<<>>, << <<"apiKey">> >>, << <<>> >>},
   controllerSecurity : {<<>>, << <<>> >>}]

\* line 371 and line 382: methodRoles || classRoles, then || []
requiredRoles(route) ==
  IF route.methodRoles # <<>> THEN route.methodRoles[1]
  ELSE IF route.classRoles # <<>> THEN route.classRoles[1]
  ELSE <<>>

\* lines 587-591
userRoles(user) ==
  IF "roles" \in DOMAIN user THEN user.roles
  ELSE IF "role" \in DOMAIN user THEN <<user.role>>
  ELSE <<>>

\* lines 570-618
createRoleMiddleware(roles, user, roleHandler) ==
  IF user = <<>>
  THEN [status |-> Unauthorized, next |-> FALSE, err |-> FALSE]
  ELSE IF Len(roles) = 0
  THEN [status |-> 0, next |-> TRUE, err |-> FALSE]
  ELSE IF roleHandler = "none"
  THEN IF \E i \in 1..Len(roles), j \in 1..Len(userRoles(user[1])) :
            roles[i] = userRoles(user[1])[j]
       THEN [status |-> 0, next |-> TRUE, err |-> FALSE]
       ELSE [status |-> Forbidden, next |-> FALSE, err |-> FALSE]
  ELSE IF roleHandler = "allow"
  THEN [status |-> 0, next |-> TRUE, err |-> FALSE]
  ELSE IF roleHandler = "deny"
  THEN [status |-> Forbidden, next |-> FALSE, err |-> FALSE]
  ELSE [status |-> 0, next |-> FALSE, err |-> TRUE]

\* lines 411-431
genericRequirements(route) ==
  IF route.isPublic THEN route.methodSecurity
  ELSE route.classSecurity \o route.methodSecurity

\* route.swagger.security after lines 384-405 and 433-446
swaggerSecurity(route) ==
  LET hasBearer ==
        \E i \in 1..Len(route.swagger) :
          \E j \in 1..Len(route.swagger[i]) : route.swagger[i][j] = "bearerAuth"
  IN (IF ~route.isPublic /\ ~hasBearer
      THEN route.swagger \o << <<"bearerAuth">> >>
      ELSE route.swagger)
     \o genericRequirements(route)

\* lines 464-467
allSecurityRequirements(route) ==
  swaggerSecurity(route) \o route.controllerSecurity

\* a request reaches the route: lines 380-382, 484-486 and 513-550
Handle(user) ==
  LET route == auth.route
      role == IF route.isPublic
              THEN [status |-> 0, next |-> TRUE, err |-> FALSE]
              ELSE createRoleMiddleware(requiredRoles(route), user,
                                        auth.roleHandler)
      security == IF Len(allSecurityRequirements(route)) > 0
                  THEN createAuthMiddleware(allSecurityRequirements(route),
                                            auth.handlers)
                  ELSE [next |-> 1, rejected |-> 0]
  IN /\ auth' = [auth EXCEPT
                   !.served = TRUE,
                   !.user = user,
                   !.status = IF ~role.next THEN role.status
                              ELSE IF security.rejected > 0 THEN Unauthorized
                              ELSE 0,
                   !.handled = role.next /\ security.next > 0]
     /\ UNCHANGED <<env, phase, devMode, htmlCache, assets, disk, watchers,
                    listeners, calls, srcVer, pending, out, seen, owed, keyQ,
                    lookup>>

----------------------------------------------------------------------------
(* A @Serve route: the pre-build of loadControllers and the call of the    *)
(* Serve wrapper.  The controller's Tailwind metadata is <<>> when the     *)
(* class carries none, <<options>> otherwise.                              *)

Metadata ==
  {<<>>} \cup {<<Options(en, pl)>> :
                 en \in BOOLEAN,
                 pl \in {NoPlugins, << <<>> >>, << <<"p">> >>}}

\* buildAndCache's default parameter, ServeMemoryStore.ts line 152
defaultOptions == Options(FALSE, << <<>> >>)

\* Components/Server.ts lines 248-251 and 465-468: the metadata is passed
\* as it is read, so undefined takes the parameter's default
preBuildOptions(meta) == IF meta = <<>> THEN defaultOptions ELSE meta[1]

\* Decorations/Serve.ts lines 46-53: Reflect.getMetadata(...) || {}
wrapperOptions(meta) ==
  IF meta = <<>> THEN Options(FALSE, NoPlugins) ELSE meta[1]

\* the two calls of the route @Serve(htmlPath) of a controller with
\* metadata meta, and the keys they derive
routeCalls(htmlPath, meta) ==
  [p1 |-> htmlPath, o1 |-> preBuildOptions(meta),
   k1 |-> getCacheKey(htmlPath, preBuildOptions(meta)),
   p2 |-> htmlPath, o2 |-> wrapperOptions(meta),
   k2 |-> getCacheKey(htmlPath, wrapperOptions(meta))]

\* loadControllers awaits the pre-build of the route it has just mounted
PreBuild ==
  /\ phase = "loading"
  /\ calls = EmptyBag
  /\ out.settled = <<>>
  /\ Begin(keyQ.p1, keyQ.o1, "prebuild", <<>>, htmlCache, disk, pending,
           FALSE)
  /\ UNCHANGED <<env, phase, devMode, listeners, srcVer, keyQ, lookup,
                 auth>>

\* the pre-build has returned html: loadControllers returns and the
\* server takes requests; a pre-build that throws ends the start-up
Listen ==
  /\ phase = "loading"
  /\ out.settled # <<>>
  /\ out.settled[1].origin = "prebuild"
  /\ out.settled[1].error = ""
  /\ phase' = "serving"
  /\ out' = Quiet
  /\ UNCHANGED <<env, devMode, htmlCache, assets, disk, watchers, listeners,
                 calls, srcVer, pending, seen, owed, keyQ, lookup,
                 auth>>

----------------------------------------------------------------------------
(* The cache under requests, builds, file changes and watcher events *)

NoKeyQ == [p1 |-> "", o1 |-> cfgOff, k1 |-> "", p2 |-> "", o2 |-> cfgOff,
           k2 |-> ""]

NoLookup == [rawPath |-> <<>>, found |-> <<>>]

\* before any request: no response and no handler call yet
NoAuth == [route |-> <<>>, envSecret |-> "", header |-> <<>>, status |-> 0,
           error |-> "", handled |-> FALSE, user |-> <<>>]

\* a store in phase ph and mode dm, with listeners L, cache directory D,
\* Asset Table A and invocations B in flight
Started(scenario, ph, dm, L, D, A, B) ==
  /\ env = scenario
  /\ phase = ph
  /\ devMode = dm
  /\ htmlCache = EmptyMap
  /\ assets = A
  /\ disk = D
  /\ watchers = EmptyMap
  /\ listeners = L
  /\ calls = B
  /\ srcVer = [e \in Entries |-> 0]
  /\ pending = EmptyMap
  /\ out = Quiet
  /\ seen = <<>>
  /\ owed = {}
  /\ IF scenario = "serve"
     THEN \E meta \in Metadata : keyQ = routeCalls("a", meta)
     ELSE keyQ = NoKeyQ
  /\ lookup = NoLookup
  /\ IF scenario = "auth"
     THEN \E route \in Routes, envSecret \in EnvSecrets :
            auth = [NoAuth EXCEPT !.route = <<route>>,
                                  !.envSecret = envSecret]
     ELSE IF scenario = "role"
     THEN \E route \in RoleRoutes,
             handlers \in SecurityHandlers({"pass", "fail"}),
             roleHandler \in RoleHandlers :
            auth = [route |-> route, handlers |-> handlers,
                    roleHandler |-> roleHandler, served |-> FALSE,
                    user |-> <<>>, status |-> 0, handled |-> FALSE]
     ELSE IF scenario = "security"
     THEN \E requirements \in RequirementLists,
             handlers \in SecurityHandlers(HandlerKinds) :
            auth = [requirements |-> requirements, handlers |-> handlers,
                    served |-> FALSE, outcome |-> Outcome0]
     ELSE auth = NoAuth

----------------------------------------------------------------------------
(* getCacheKey applied to pairs of inputs *)

KeyPaths == {"a", "a:tw", "a:1", "b"}

KeyPlugins == {NoPlugins, << <<>> >>, << <<"p">> >>, << <<"q">> >>,
               << <<"p", "q">> >>}

KeyOptions == {Options(en, pl) : en \in BOOLEAN, pl \in KeyPlugins}

Derive(p1, o1, p2, o2) ==
  /\ keyQ' = [p1 |-> p1, o1 |-> o1, k1 |-> getCacheKey(p1, o1),
              p2 |-> p2, o2 |-> o2, k2 |-> getCacheKey(p2, o2)]
  /\ UNCHANGED <<env, phase, devMode, htmlCache, assets, disk, watchers,
                 listeners, calls, srcVer, pending, out, seen, owed, lookup,
                 auth>>

----------------------------------------------------------------------------
(* getAsset applied to an Asset Table *)

jsAsset == [type |-> "text/javascript;charset=utf-8", content |-> <<77>>]

AssetPaths ==
  { <<"/", "b">>,
    <<"/", "e", "t", "c", "/", "p", "a", "s", "s", "w", "d">>,
    <<"/", "a", "-", "0", ".", "j", "s">> }

AssetTables == {[p \in S |-> jsAsset] : S \in SUBSET AssetPaths}

RawPaths ==
  { <<"/", ".", ".", "/", ".", ".", "/", "e", "t", "c", "/", "p", "a", "s",
      "s", "w", "d">>,
    <<"/", "a", "/", ".", ".", "/", ".", ".", "/", "b">>,
    <<"/", "a", "/", ".", ".", "/", "b">>,
    <<"/", "b">>,
    <<"/", ".", "/", "b">>,
    <<"/", "/", "b">>,
    <<"/", "b", "/">>,
    <<"/", "b", "/", ".", ".">>,
    <<"b">>,
    <<".", ".", "/", "b">>,
    <<"b", "/", ".", ".", "/", ".", ".", "/", "b">>,
    <<"/", ".", ".">>,
    <<"/", "b", ".", ".">>,
    <<"/", "a", "-", "0", ".", "j", "s">>,
    <<"/", "x", "/", ".", ".", "/", ".", ".", "/", "a", "-", "0", ".", "j",
      "s">>,
    <<"/", "e", "t", "c", "/", "p", "a", "s", "s", "w", "d">>,
    <<>> }

Lookup(rawPath) ==
  /\ lookup' = [rawPath |-> <<rawPath>>, found |-> getAsset(assets, rawPath)]
  /\ UNCHANGED <<env, phase, devMode, htmlCache, assets, disk, watchers,
                 listeners, calls, srcVer, pending, out, seen, owed, keyQ,
                 auth>>

----------------------------------------------------------------------------

(* The compiler's outputs for one build, as the loop of lines 198-218    *)
(* may meet them: side outputs of any bytes, the html first or last       *)

MaxBytes == 3

Octets == {0, 104, 255}

ByteSeqs == UNION {[1..n -> Octets] : n \in 0..MaxBytes}

SideOutput(name, type, bytes) ==
  [path |-> <<".", "/">> \o name, type |-> type, bytes |-> bytes,
   text |-> <<>>]

HtmlOutput ==
  [path |-> <<".", "/", "a", ".", "h", "t", "m", "l">>,
   type |-> "text/html;charset=utf-8", bytes |-> <<>>,
   text |-> <<Html("a", 0, 0, TRUE)>>]

jsName == <<"a", "-", "1", "f", ".", "j", "s">>

cssName == <<"a", "-", "2", "e", ".", "c", "s", "s">>

CompilerOutputs ==
  {<<SideOutput(jsName, "text/javascript;charset=utf-8", b), HtmlOutput>> :
     b \in ByteSeqs}
  \cup
  {<<HtmlOutput, SideOutput(jsName, "text/javascript;charset=utf-8", b)>> :
     b \in ByteSeqs}
  \cup
  {<<SideOutput(jsName, "text/javascript;charset=utf-8", b[1]),
     SideOutput(cssName, "text/css;charset=utf-8", b[2]), HtmlOutput>> :
     b \in ByteSeqs \X {<<>>, <<104>>, <<0, 255>>}}

\* buildAndCache("a", {}) in production mode, at line 198
AtOutputs(outputs) ==
  [IdleCall EXCEPT !.pc = "outputs", !.idx = 1, !.htmlPath = "a",
                   !.options = cfgOff,
                   !.cacheKey = getCacheKey("a", cfgOff),
                   !.origin = "request", !.minify = TRUE,
                   !.outputs = outputs, !.compiles = 1, !.diskReads = 1,
                   !.prod = TRUE]

----------------------------------------------------------------------------

\* the store as its constructor leaves it, lines 9-19, over whatever a
\* previous process left in the cache directory
Init ==
  \E D \in LeftoverDisks :
    Started("base", "constructing", FALSE, <<>>, D, EmptyMap, EmptyBag)

\* a production server that has finished starting
InitProd(scenario) ==
  \E D \in ParsedLeftovers :
    Started(scenario, "serving", FALSE, <<>>, D, EmptyMap, EmptyBag)

\* a development server that has finished starting: setupHmr has set the
\* mode and registered the server's listener
InitDev(scenario) ==
  \E D \in IF scenario = "again" THEN {EmptyMap} ELSE ParsedLeftovers :
    Started(scenario, "serving", TRUE, <<[throws |-> FALSE]>>, D, EmptyMap,
            EmptyBag)

NextProd ==
  \/ \E a \in CallArgs, keep \in BOOLEAN : Request(a[1], a[2], keep)
  \/ \E r \in InFlight : CompilerRead(r)
  \/ \E r \in InFlight, success \in BOOLEAN : BuildDone(r, success)
  \/ \E r \in InFlight, writeOk \in BOOLEAN, t \in Timestamps,
        keep \in BOOLEAN : Output(r, writeOk, t, keep)
  \/ \E e \in Entries : FileChange(e)
  \/ clearCache

NextDev ==
  \/ NextProd
  \/ \E k \in AllKeys, ev \in EventNames : WatchEvent(k, ev)

Next ==
  \/ NextDev
  \/ setDevMode(TRUE)
  \/ \E throws \in BOOLEAN : onRebuild(throws)
  \/ init

Spec == Init /\ [][Next]_vars

SpecSeen == InitProd("seen") /\ [][NextProd]_vars

SpecOwed == InitProd("owed") /\ [][NextProd]_vars

SpecAgain == InitDev("again") /\ [][NextDev]_vars

SpecStart == InitDev("start") /\ [][NextDev]_vars

SpecNoise == InitDev("noise") /\ [][NextDev]_vars

SpecFail == InitDev("fail") /\ [][NextDev]_vars

SpecSame == InitProd("same") /\ [][NextProd]_vars

\* a development server whose compiles all succeed
NextRace ==
  \/ Request("a", cfgOff, FALSE)
  \/ \E r \in InFlight : CompilerRead(r)
  \/ \E r \in InFlight : BuildDone(r, TRUE)
  \/ \E r \in InFlight : Output(r, TRUE, 0, FALSE)
  \/ \E e \in Entries : FileChange(e)
  \/ \E k \in AllKeys, ev \in EventsNow : WatchEvent(k, ev)
  \/ clearCache

SpecRace == InitDev("race") /\ [][NextRace]_vars

\* a production server mounting one @Serve route over an empty cache
\* directory
InitServe ==
  Started("serve", "loading", FALSE, <<>>, EmptyMap, EmptyMap, EmptyBag)

NextServe ==
  \/ PreBuild
  \/ Listen
  \/ Request(keyQ.p2, keyQ.o2, FALSE)
  \/ \E r \in InFlight : CompilerRead(r)
  \/ \E r \in InFlight, success \in BOOLEAN : BuildDone(r, success)
  \/ \E r \in InFlight, writeOk \in BOOLEAN : Output(r, writeOk, 0, FALSE)
  \/ \E e \in Entries : FileChange(e)

SpecServe == InitServe /\ [][NextServe]_vars

SpecWatch == InitDev("watch") /\ [][NextDev]_vars

InitMode ==
  \E dm \in BOOLEAN, D \in ParsedLeftovers :
    Started("mode", "serving", dm,
            IF dm THEN <<[throws |-> FALSE]>> ELSE <<>>, D, EmptyMap,
            EmptyBag)

SpecMode == InitMode /\ [][NextDev]_vars

InitLoad ==
  \E D \in LeftoverDisks :
    Started("load", "serving", FALSE, <<>>, D, EmptyMap, EmptyBag)

NextLoad ==
  \/ \E a \in CallArgs : Request(a[1], a[2], FALSE)
  \/ \E r \in InFlight : CompilerRead(r)
  \/ \E r \in InFlight, success \in BOOLEAN : BuildDone(r, success)
  \/ \E r \in InFlight, writeOk \in BOOLEAN : Output(r, writeOk, 0, FALSE)
  \/ clearCache

SpecLoad == InitLoad /\ [][NextLoad]_vars

InitRecord ==
  \E outputs \in CompilerOutputs :
    Started("record", "serving", FALSE, <<>>, EmptyMap, EmptyMap,
            SetToBag({AtOutputs(outputs)}))

NextRecord ==
  \E r \in InFlight, writeOk \in BOOLEAN : Output(r, writeOk, 0, FALSE)

SpecRecord == InitRecord /\ [][NextRecord]_vars

InitKey ==
  Started("key", "constructing", FALSE, <<>>, EmptyMap, EmptyMap, EmptyBag)

NextKey ==
  \E p1 \in KeyPaths, o1 \in KeyOptions, p2 \in KeyPaths, o2 \in KeyOptions :
    Derive(p1, o1, p2, o2)

SpecKey == InitKey /\ [][NextKey]_vars

InitAsset ==
  \E tbl \in AssetTables :
    Started("asset", "serving", FALSE, <<>>, EmptyMap, tbl, EmptyBag)

NextAsset == \E rawPath \in RawPaths : Lookup(rawPath)

SpecAsset == InitAsset /\ [][NextAsset]_vars

InitAuth ==
  Started("auth", "serving", FALSE, <<>>, EmptyMap, EmptyMap, EmptyBag)

NextAuth == \E authHeader \in AuthHeaders : Dispatch(authHeader)

SpecAuth == InitAuth /\ [][NextAuth]_vars

InitSecurity ==
  Started("security", "serving", FALSE, <<>>, EmptyMap, EmptyMap, EmptyBag)

SpecSecurity == InitSecurity /\ [][Authenticate]_vars

InitRole ==
  Started("role", "serving", FALSE, <<>>, EmptyMap, EmptyMap, EmptyBag)

NextRole == \E user \in Users : Handle(user)

SpecRole == InitRole /\ [][NextRole]_vars

----------------------------------------------------------------------------
(* Properties *)

Done == out.settled[1]

HasSettled == out.settled # <<>>

\* C3: when the compiler reports failure, buildAndCache raises the error
\* and has changed none of the in-process store, the Asset Table, the
\* persistent store and the watcher registry.
C3_FailedBuildWritesNothing ==
  (HasSettled /\ Done.error = "Build failed") => ~Done.touched

\* C4: a watcher-triggered rebuild that succeeds invokes every registered
\* listener exactly once, in registration order, with the html it built.
C4_EveryListenerOnce ==
  out.notify # <<>> =>
    /\ out.notify[1].invoked = [i \in 1..out.notify[1].count |-> i]
    /\ out.notify[1].html = Done.result[1]

C6_Noise(ev) ==
  \/ ev = <<>>
  \/ Includes(ev[1], <<"n", "o", "d", "e", "_", "m", "o", "d", "u", "l",
                       "e", "s">>)
  \/ Includes(ev[1], <<".", "g", "i", "t">>)
  \/ Includes(ev[1], <<".", "e", "b", "w", "-", "c", "a", "c", "h", "e">>)

\* C6: a watch event without filename, or whose filename contains
\* node_modules, .git or .ebw-cache, evicts nothing from either tier,
\* starts no rebuild and invokes no listener.
C6_NoiseIgnored ==
  [][(out'.event # <<>> /\ C6_Noise(out'.event[1].name)) =>
       /\ htmlCache' = htmlCache
       /\ disk' = disk
       /\ assets' = assets
       /\ calls' = calls
       /\ out'.settled = <<>>
       /\ out'.notify = <<>>]_vars

C6_Witness ==
  /\ out.event # <<>>
  /\ out.event[1].name # <<>>
  /\ C6_Noise(out.event[1].name)
  /\ htmlCache # EmptyMap
  /\ disk # EmptyMap
  /\ listeners # <<>>

C9_SideOutputs(outputs) == {i \in 1..Len(outputs) : outputs[i].text = <<>>}

C9_WebPath(output) == <<"/">> \o Last(SplitOn(output.path, {"/", "\\"}))

\* C9: the record a production build persists for key K, loaded into an
\* empty in-process store and an empty Asset Table, gives the html the
\* build returned and, for every side-asset web path, the media type and
\* the bytes of the build's output.
C9_RecordRoundTrip ==
  (HasSettled /\ Done.persisted) =>
    LET H == loadFromDisk_htmlCache(FALSE, disk, EmptyMap, Done.cacheKey)
        A == loadFromDisk_assets(FALSE, disk, EmptyMap, Done.cacheKey)
        side == C9_SideOutputs(Done.outputs)
    IN /\ loadFromDisk_result(FALSE, disk, Done.cacheKey) = Done.result
       /\ H = Put(EmptyMap, Done.cacheKey, Done.result[1])
       /\ DOMAIN A = {C9_WebPath(Done.outputs[i]) : i \in side}
       /\ \A i \in side :
            A[C9_WebPath(Done.outputs[i])] =
              [type |-> Done.outputs[i].type,
               content |-> Done.outputs[i].bytes]

C9_Witness ==
  /\ HasSettled
  /\ Done.persisted
  /\ C9_SideOutputs(Done.outputs) # {}
  /\ \E i \in C9_SideOutputs(Done.outputs) :
       Len(Done.outputs[i].bytes) % 3 # 0

\* C1: in production mode, a call made after a successful
\* return for the same arguments, with no clearCache in between, returns
\* the same html, without a compile and without a disk read.
C1_SameHtmlAsBefore ==
  (HasSettled /\ Done.prod /\ Done.later) =>
    /\ Done.error = ""
    /\ Done.result[1] = seen[1].html
    /\ Done.compiles = 0
    /\ Done.diskReads = 0

C2_Unstamped(h) == [h EXCEPT !.ts = 0]

C2_SecondCall ==
  /\ HasSettled
  /\ ~Done.prod
  /\ Done.origin = "request"
  /\ Done.later
  /\ Done.error = ""
  /\ SeenFor(Done.htmlPath, Done.options)
  /\ seen[1].html.v = srcVer[Done.htmlPath]

C5_FreshAfterChange ==
  (HasSettled /\ Done.error = "") =>
    /\ Done.result[1].e = Done.htmlPath
    /\ ~Done.late

C5_Witness ==
  /\ HasSettled
  /\ Has(watchers, Done.cacheKey)
  /\ Done.stale
  /\ Done.origin = "request"
  /\ Done.error = ""
  /\ Done.result[1].v >= 1

\* C7: after clearCache, the next buildAndCache for a key that was cached
\* invokes the compiler.
C7_RebuildAfterClear ==
  (HasSettled /\ Done.owed) => Done.compiles = 1

RECURSIVE C8_Escapes(_, _)
\* some ".." segment is read at depth 0
C8_Escapes(segs, depth) ==
  IF Len(segs) = 0 THEN FALSE
  ELSE IF Head(segs) = <<>> \/ Head(segs) = <<".">>
  THEN C8_Escapes(Tail(segs), depth)
  ELSE IF Head(segs) = <<".", ".">>
  THEN depth = 0 \/ C8_Escapes(Tail(segs), depth - 1)
  ELSE C8_Escapes(Tail(segs), depth + 1)

C8_Climbs(rawPath) == C8_Escapes(SplitOn(rawPath, {"/"}), 0)

\* C8: getAsset returns absent for every path with a parent-directory
\* segment that climbs above its starting point, whatever the Asset Table
\* holds.
C8_ClimbingPathAbsent ==
  (lookup.rawPath # <<>> /\ C8_Climbs(lookup.rawPath[1])) =>
    lookup.found = <<>>

C10_Count(options) ==
  IF options.plugins = NoPlugins THEN -1 ELSE Len(options.plugins[1])

C10_SameConfig(o1, o2) ==
  o1.enable = o2.enable /\ C10_Count(o1) = C10_Count(o2)

\* C10: inputs that differ in the entry path or in the
\* configuration (enable flag or plugin count) never derive the same key.
C10_DifferentInputsDifferentKeys ==
  (keyQ.p1 # keyQ.p2 \/ ~C10_SameConfig(keyQ.o1, keyQ.o2)) =>
    keyQ.k1 # keyQ.k2

\* C11: when a rebuild is notified and one of the registered listeners
\* throws, every other registered listener is still invoked.
C11_OthersStillInvoked ==
  (out.notify # <<>> /\ \E i \in 1..Len(listeners) : listeners[i].throws) =>
    \A j \in 1..Len(listeners) :
      ~listeners[j].throws => j \in DOMAIN out.notify[1].invoked

\* a production call whose compile succeeded and whose record was not
\* written
C12_WriteFailed ==
  /\ HasSettled
  /\ Done.prod
  /\ Done.compiles = 1
  /\ Done.error # "Build failed"
  /\ ~Done.persisted

\* C12: in production mode, if writing the persisted record fails after a
\* successful compile, buildAndCache still returns the built html and the
\* in-process store holds that html for the key.
C12_WriteFailureReturnsHtml ==
  C12_WriteFailed =>
    /\ Done.error = ""
    /\ Done.result # <<>>
    /\ Has(htmlCache, Done.cacheKey)
    /\ htmlCache[Done.cacheKey] = Done.result[1]

C13_Unreadable(k) ==
  Has(disk, cacheFile(k)) /\ disk[cacheFile(k)].kind = "unparseable"

\* in this step buildAndCache is called for key k: the invocation is in
\* flight after the step, or has returned in it without a compile
C13_Called(k) ==
  \/ \E r \in BagToSet(calls') :
       /\ r.cacheKey = k
       /\ r.pc = "building"
       /\ CopiesIn(r, calls') > CopiesIn(r, calls)
  \/ out'.settled # <<>> /\ out'.settled[1].cacheKey = k

C13_PlainMiss(k) ==
  \E a \in CallArgs :
    /\ getCacheKey(a[1], a[2]) = k
    /\ calls' = Enter(calls,
         [IdleCall EXCEPT !.pc = "building", !.htmlPath = a[1],
                          !.options = a[2], !.cacheKey = k,
                          !.origin = "request", !.minify = TRUE,
                          !.compiles = 1, !.diskReads = 1, !.prod = TRUE])

\* C13: a persisted record that cannot be read or parsed is a miss: the
\* call does not fail, changes neither store nor the Asset Table, and goes
\* on to the compiler as on a plain miss.
C13_UnreadableRecordIsMiss ==
  [][\A k \in AllKeys :
       (~devMode /\ ~Has(htmlCache, k) /\ C13_Unreadable(k) /\ C13_Called(k))
         => /\ out'.settled = <<>>
            /\ C13_PlainMiss(k)
            /\ htmlCache' = htmlCache
            /\ assets' = assets
            /\ disk' = disk]_vars

C13_Witness ==
  \E r \in InFlight :
    /\ r.pc = "building"
    /\ r.prod
    /\ C13_Unreadable(r.cacheKey)
    /\ ~Has(htmlCache, r.cacheKey)
    /\ assets # EmptyMap

C14_Failed ==
  /\ HasSettled
  /\ Done.origin = "watcher"
  /\ Done.error # ""

C15_OneWatcherPerPath ==
  \A k1 \in DOMAIN watchers, k2 \in DOMAIN watchers :
    watchers[k1].htmlPath = watchers[k2].htmlPath => k1 = k2

C16_Readable(k) ==
  Has(disk, cacheFile(k)) /\ disk[cacheFile(k)].kind = "ok"

\* C16: in production mode, a call for a key that the in-process store
\* lacks and that has a readable persisted record returns the record's
\* html without a compile; afterwards the in-process store maps the key
\* to that html and the Asset Table holds every side-asset of the record.
C16_DiskHitHydrates ==
  [][\A k \in AllKeys :
       (~devMode /\ ~Has(htmlCache, k) /\ C16_Readable(k) /\ C13_Called(k))
         => LET rec == disk[cacheFile(k)]
            IN /\ out'.settled # <<>>
               /\ out'.settled[1].error = ""
               /\ out'.settled[1].result = rec.html
               /\ out'.settled[1].compiles = 0
               /\ calls' = calls
               /\ Has(htmlCache', k)
               /\ htmlCache'[k] = rec.html[1]
               /\ \A p \in DOMAIN rec.assets :
                    /\ Has(assets', p)
                    /\ assets'[p] =
                         [type |-> rec.assets[p].type,
                          content |-> fromBase64(rec.assets[p].content)]]_vars

C16_Witness ==
  /\ HasSettled
  /\ Done.prod
  /\ Done.diskReads = 1
  /\ Done.compiles = 0
  /\ C16_Readable(Done.cacheKey)
  /\ DOMAIN disk[cacheFile(Done.cacheKey)].assets # {}
  /\ \E p \in DOMAIN assets :
       p \notin DOMAIN disk[cacheFile(Done.cacheKey)].assets

\* C17: after a successful production build of key K, the in-process
\* store maps K to the returned html and the persistent store holds a
\* record for K with that html and exactly the build's side-assets.
C17_BuildStoresBothTiers ==
  (HasSettled /\ Done.prod /\ Done.compiles = 1 /\ Done.error = "") =>
    LET side == {i \in 1..Len(Done.outputs) : Done.outputs[i].text = <<>>}
        path(i) ==
          <<"/">> \o Last(SplitOn(Done.outputs[i].path, {"/", "\\"}))
    IN /\ Has(htmlCache, Done.cacheKey)
       /\ htmlCache[Done.cacheKey] = Done.result[1]
       /\ Has(disk, cacheFile(Done.cacheKey))
       /\ LET rec == disk[cacheFile(Done.cacheKey)]
          IN /\ rec.kind = "ok"
             /\ rec.html = Done.result
             /\ DOMAIN rec.assets = {path(i) : i \in side}
             /\ \A i \in side :
                  /\ rec.assets[path(i)].type = Done.outputs[i].type
                  /\ fromBase64(rec.assets[path(i)].content) =
                       Done.outputs[i].bytes

C17_Witness ==
  /\ HasSettled
  /\ Done.prod
  /\ Done.compiles = 1
  /\ Done.error = ""
  /\ Cardinality({i \in 1..Len(Done.outputs) :
                    Done.outputs[i].text = <<>>}) = 2

C18_Built == HasSettled /\ Done.compiles = 1 /\ Done.error = ""

\* C18: a successful build in development mode stores and returns html
\* with the reload snippet and leaves a watcher armed for the entry; a
\* successful build in production mode stores and returns html without
\* the snippet and arms no watcher.
C18_SnippetAndWatcherByMode ==
  C18_Built =>
    /\ Has(htmlCache, Done.cacheKey)
    /\ htmlCache[Done.cacheKey] = Done.result[1]
    /\ Done.result[1].hmr = devMode
    /\ IF devMode
       THEN /\ Has(watchers, Done.cacheKey)
            /\ watchers[Done.cacheKey].htmlPath = Done.htmlPath
       ELSE watchers = EmptyMap

C18_Witness ==
  /\ C18_Built
  /\ devMode
  /\ Done.origin = "request"
  /\ Done.result[1].hmr

\* the token a request carries under the Bearer scheme: the text between
\* "Bearer " and the next space
C19_Token(header) ==
  IF Len(header) > 7 /\ SubSeq(header, 1, 7) = Bearer \o <<" ">>
  THEN LET rest == SubSeq(header, 8, Len(header))
           stop == IF \E i \in 1..Len(rest) : rest[i] = " "
                   THEN CHOOSE i \in 1..Len(rest) :
                          rest[i] = " " /\ \A j \in 1..(i - 1) : rest[j] # " "
                   ELSE Len(rest) + 1
       IN SubSeq(rest, 1, stop - 1)
  ELSE <<>>

\* the secret a route verifies with: the nearest @Authorize's, else the
\* process's
C19_Secret(route, envSecret) ==
  LET near == IF route.authorize # <<>> THEN route.authorize
              ELSE route.classAuthorize
  IN IF near # <<>> /\ near[1] # "" THEN near[1] ELSE envSecret

C19_Valid(header, secret) ==
  /\ secret # ""
  /\ Len(C19_Token(header)) = 1
  /\ C19_Token(header)[1] \in {"t1", "t2", "tEnv"}
  /\ signedWith(C19_Token(header)[1]) = secret

C19_RequiredNoToken ==
  /\ auth.header # <<>>
  /\ auth.route[1].required \/ auth.route[1].classRequired
  /\ ~C19_Valid(auth.header[1], C19_Secret(auth.route[1], auth.envSecret))

C20_Optional ==
  /\ auth.header # <<>>
  /\ ~auth.route[1].required
  /\ ~auth.route[1].classRequired
  /\ LET near == IF auth.route[1].authorize # <<>>
                 THEN auth.route[1].authorize
                 ELSE auth.route[1].classAuthorize
     IN near # <<>> /\ near[1] # ""

\* C20: a route with @Authorize(secret) and without @AuthRequired never
\* rejects: the handler is invoked, with the decoded payload as user when
\* the request's token verifies against the secret and with no user
\* otherwise.
C20_OptionalAuthReachesHandler ==
  C20_Optional =>
    LET near == IF auth.route[1].authorize # <<>>
                THEN auth.route[1].authorize
                ELSE auth.route[1].classAuthorize
        tok == C19_Token(auth.header[1])
    IN /\ auth.handled
       /\ auth.status = 0
       /\ auth.user = IF C19_Valid(auth.header[1], near[1])
                      THEN <<[sub |-> tok[1]]>>
                      ELSE <<>>

C20_Witness ==
  /\ C20_Optional
  /\ auth.envSecret # ""
  /\ auth.handled
  /\ auth.user # <<>>

\* every configured handler calls its callback exactly once
C26_OnceHandlers ==
  \A scheme \in DOMAIN auth.handlers :
    auth.handlers[scheme] \in {"pass", "fail"}

\* requirement i is empty, or each of its schemes has a handler that passes
C26_Met(i) ==
  \A j \in 1..Len(auth.requirements[i]) :
    /\ Has(auth.handlers, auth.requirements[i][j])
    /\ auth.handlers[auth.requirements[i][j]] = "pass"

\* C26: given handlers that call their callback exactly once, the
\* security-requirement middleware calls next, once, exactly when some
\* requirement of the list is empty or has every scheme backed by a
\* handler that passes; otherwise it answers 401, once; never both.
C26_OrOfAnds ==
  (auth.served /\ C26_OnceHandlers) =>
    IF \E i \in 1..Len(auth.requirements) : C26_Met(i)
    THEN auth.outcome = [next |-> 1, rejected |-> 0]
    ELSE auth.outcome = [next |-> 0, rejected |-> 1]

C26_Witness ==
  /\ auth.served
  /\ C26_OnceHandlers
  /\ Len(auth.requirements) = 2
  /\ ~C26_Met(1)
  /\ Len(auth.requirements[2]) = 2
  /\ C26_Met(2)
  /\ auth.outcome.next = 1

\* nothing is configured beyond the roles of @Authorized and the
\* UserHandler
C21_NothingElse ==
  /\ auth.handlers = EmptyMap
  /\ auth.roleHandler = "none"
  /\ auth.route.swagger = <<>>
  /\ auth.route.classSecurity = <<>>
  /\ auth.route.methodSecurity = <<>>
  /\ auth.route.controllerSecurity = <<>>

C21_Listed ==
  IF auth.route.methodRoles # <<>> THEN auth.route.methodRoles[1]
  ELSE IF auth.route.classRoles # <<>> THEN auth.route.classRoles[1]
  ELSE <<>>

C21_Holds(user, role) ==
  \/ "roles" \in DOMAIN user /\ \E j \in 1..Len(user.roles) : user.roles[j] = role
  \/ "role" \in DOMAIN user /\ user.role = role

\* C21: a request to a non-public route reaches the handler whenever the
\* user authenticate returns is non-null and holds one of the roles listed
\* (or no roles are listed), with nothing else configured.
C21_AuthorizedUserReachesHandler ==
  (/\ auth.served
   /\ ~auth.route.isPublic
   /\ C21_NothingElse
   /\ auth.user # <<>>
   /\ \/ C21_Listed = <<>>
      \/ \E i \in 1..Len(C21_Listed) : C21_Holds(auth.user[1], C21_Listed[i]))
    => auth.handled

\* C22: the eviction, rebuild and repopulation of one watcher event never
\* interleave with those of another watcher event for the same key: while
\* the rebuild of one event is in flight, no other event for the key has
\* evicted and started its own.
C22_OneRebuildPerKeyAtATime ==
  \A k \in AllKeys :
    LET W == {r \in InFlight : r.origin = "watcher" /\ r.cacheKey = k}
    IN /\ Cardinality(W) <= 1
       /\ \A r \in W : CopiesIn(r, calls) = 1

C23_Returned == HasSettled /\ Done.compiles = 1 /\ Done.error = ""

\* C23: calls for one key that are in flight together after missing both
\* tiers each invoke the compiler themselves, exactly once; each of them
\* whose compile and record write succeed returns the html of its own
\* compile, and at its return the in-process store holds that html, so
\* that after all of them the store holds the html of the last to finish.
C23_EachMissCompiles ==
  /\ \A r \in InFlight : r.compiles = 1
  /\ C23_Returned =>
       /\ \E i \in 1..Len(Done.outputs) :
            Done.outputs[i].text = Done.result
       /\ Has(htmlCache, Done.cacheKey)
       /\ htmlCache[Done.cacheKey] = Done.result[1]

\* the second of two calls made together returns html of newer sources
\* than the first, which has already returned, had compiled
C23_Witness ==
  /\ C23_Returned
  /\ Done.later
  /\ Done.result[1].v = MaxVer
  /\ calls = EmptyBag

\* the step is clearCache, or a watcher callback unlinking the record of
\* its key (lines 131-136) before it calls buildAndCache
C24_OthersRemove ==
  \/ disk' = EmptyMap /\ htmlCache' = EmptyMap /\ assets' = EmptyMap
  \/ \E k \in DOMAIN watchers :
       /\ pending[k] # <<>>
       /\ pending'[k] = Tail(pending[k])
       /\ disk' = Del(disk, cacheFile(k))

\* C24: in development mode buildAndCache neither reads nor writes the
\* persistent store: a call reads no record and invokes the compiler even
\* when a record for its key exists, and no step of a build creates or
\* changes a record.
C24_DevBypassesDisk ==
  [][devMode =>
       /\ \A r \in BagToSet(calls') : r.diskReads = 0 /\ r.compiles = 1
       /\ out'.settled # <<>> =>
            /\ out'.settled[1].diskReads = 0
            /\ out'.settled[1].compiles = 1
            /\ ~out'.settled[1].persisted
       /\ disk' = disk \/ C24_OthersRemove]_vars

\* a development build has returned while the record a production run
\* left for its key is still there, as it was
C24_Witness ==
  /\ devMode
  /\ HasSettled
  /\ Done.error = ""
  /\ Has(disk, cacheFile(Done.cacheKey))
  /\ disk \in LeftoverDisks
  /\ disk[cacheFile(Done.cacheKey)].html # Done.result

\* the web path of the script of a build that read version v of "a"
C25_ScriptOf(v) == <<"/", "a", "-">> \o ToString(v) \o <<".", "j", "s">>

\* C25: only clearCache removes entries from the Asset Table: after any
\* other step (a build's output, a disk load, a watcher's eviction) every
\* path that was in the table is still answered by getAsset.
C25_OnlyClearCacheRemoves ==
  [][\/ disk' = EmptyMap /\ htmlCache' = EmptyMap /\ assets' = EmptyMap
     \/ \A p \in DOMAIN assets :
          /\ p \in DOMAIN assets'
          /\ getAsset(assets', p) = <<assets'[p]>>]_vars

\* the store holds html of the edited sources while the script of the
\* build it superseded is still served
C25_Witness ==
  /\ Has(htmlCache, "a")
  /\ htmlCache["a"].v = 1
  /\ C25_ScriptOf(1) \in DOMAIN assets
  /\ getAsset(assets, C25_ScriptOf(0)) # <<>>

\* a watcher rebuild has just returned, no call is in flight and every
\* event sent has been handled
C27_AllRebuilt ==
  /\ HasSettled
  /\ Done.origin = "watcher"
  /\ Done.error = ""
  /\ calls = EmptyBag
  /\ \A k \in DOMAIN pending : pending[k] = <<>>

\* C27: once every rebuild started by the events of an entry has
\* completed, the in-process entry and the html of the last notification
\* are html of the entry's most recent source content.
C27_LatestSourceWins ==
  C27_AllRebuilt =>
    /\ Has(htmlCache, Done.cacheKey)
    /\ htmlCache[Done.cacheKey].v = srcVer[Done.htmlPath]
    /\ out.notify # <<>>
    /\ out.notify[1].html.v = srcVer[Done.htmlPath]

\* the html is that of the record a previous process left for "a"
C28_FromLeftover(h) ==
  \E D \in ParsedLeftovers :
    Has(D, cacheFile("a")) /\ D[cacheFile("a")].html = <<h>>

\* C28: whenever the in-process store holds html for a key, the side-asset
\* of the build that made the html (or, for html hydrated from a
\* leftover record, the side-asset of that record) is in the Asset Table.
C28_CachedHtmlHasItsAssets ==
  \A k \in DOMAIN htmlCache :
    \/ C25_ScriptOf(htmlCache[k].v) \in DOMAIN assets
    \/ /\ C28_FromLeftover(htmlCache[k])
       /\ \E D \in ParsedLeftovers :
            /\ Has(D, cacheFile("a"))
            /\ DOMAIN D[cacheFile("a")].assets \subseteq DOMAIN assets

\* the record of key k is there and does not load
C29_FailingRecord(k) ==
  Has(disk, cacheFile(k)) /\ disk[cacheFile(k)].kind # "ok"

\* C29: a load that fails (unreadable file, invalid JSON, or a record
\* whose assets are missing) leaves the in-process store and the Asset
\* Table exactly as they were before the call.
C29_FailedLoadHydratesNothing ==
  [][\A k \in AllKeys :
       (~devMode /\ ~Has(htmlCache, k) /\ C29_FailingRecord(k)
          /\ C13_Called(k))
         => /\ htmlCache' = htmlCache
            /\ assets' = assets]_vars

\* a request to the route has called buildAndCache
C30_Requested ==
  \/ HasSettled /\ Done.origin = "request"
  \/ \E r \in InFlight : r.origin = "request"

\* C30: the pre-build and the Serve wrapper derive the same cache key for
\* a route, with or without Tailwind metadata on the controller, so in
\* production every request after the pre-build is answered from the
\* in-process store: no request reads a record or compiles.
C30_PreBuildServesFirstRequest ==
  C30_Requested =>
    /\ keyQ.k1 = keyQ.k2
    /\ \A r \in InFlight : r.origin # "request"
    /\ (HasSettled /\ Done.origin = "request") =>
         /\ Done.compiles = 0
         /\ Done.diskReads = 0
         /\ Done.error = ""

====
